---- MODULE Spec2Model ----
(***************************************************************************)
(* The landing page of frontend/app/page.tsx: the element tree that Home   *)
(* returns, the CSS that its utility classes stand for, and the browser's  *)
(* life cycle around it (render, image load, resize, unmount).             *)
(*                                                                         *)
(* The tree is kept flat: a sequence of element records in document order, *)
(* each naming its parent.  "canvas" is the document root above Home's     *)
(* outermost div.                                                          *)
(***************************************************************************)
EXTENDS Integers, Sequences, FiniteSets, TLC

VARIABLES
    viewport,   \* [w, h] of the browser viewport, CSS px
    image,      \* [w, h] intrinsic size of /bg.jpg
    navH,       \* in-flow height of the <Navbar /> block
    content,    \* [w, h] max-content size of the hero text block
    load,       \* load state of the background image
    renders,    \* number of render passes of Home so far
    requests,   \* number of loads of the asset requested so far
    dom,        \* the element tree of the last render pass, <<>> when unmounted
    paint,      \* the browser's bottom-to-top paint sequence for dom
    first,      \* the element tree of the first render pass
    domAt       \* per load state, the tree of the last render pass made in it

vars == <<viewport, image, navH, content, load, renders, requests, dom, paint, first, domAt>>

----------------------------------------------------------------------------
(* Bounds and input sets *)

MaxRenders == 4

Viewports == { [w |-> 320, h |-> 568], [w |-> 1024, h |-> 768],
               [w |-> 1920, h |-> 1080], [w |-> 800, h |-> 200] }

ImageSizes == { [w |-> 4, h |-> 3], [w |-> 9, h |-> 16], [w |-> 16, h |-> 9] }

NavHeights == { 0, 64 }

ContentSizes == { [w |-> 300, h |-> 90], [w |-> 1200, h |-> 260] }

LoadStates == { "idle", "pending", "loaded", "failed" }

----------------------------------------------------------------------------
(* The element tree returned by Home *)

El(id, tag, parent, cls, text) ==
    [ id |-> id, tag |-> tag, parent |-> parent, cls |-> cls, text |-> text,
      src |-> "", alt |-> "", fill |-> FALSE, priority |-> FALSE ]

\* Variant: the column is given a fixed height of one viewport.
RootClassFixedHeight ==
    { "flex", "h-screen", "flex-col", "items-center", "justify-center",
      "relative", "overflow-hidden" }

RootClass ==
    { "flex", "min-h-screen", "flex-col", "items-center", "justify-center",
      "relative", "overflow-hidden" }

\* Variant: the hero does not hide its overflow.
HeroClassUnclipped ==
    { "relative", "flex", "flex-col", "items-center", "justify-center",
      "h-screen", "w-full", "text-center", "px-4", "bg-foreground" }

HeroClass ==
    { "relative", "flex", "flex-col", "items-center", "justify-center",
      "h-screen", "w-full", "text-center", "px-4", "bg-foreground",
      "overflow-hidden" }

\* Variant: the layer wrapper is raised instead of lowered.
LayerClassRaised == { "absolute", "inset-0", "z-10" }

\* Variant: opacity and blur are put on the wrapper of both layers.
LayerClassBlurred == { "absolute", "inset-0", "-z-10", "opacity-30", "blur-[2px]" }

\* Variant: the layer wrapper has no z-index and so forms no group.
LayerClassFlat == { "absolute", "inset-0" }

LayerClass == { "absolute", "inset-0", "-z-10" }

\* Variant: the picture is fitted inside the box instead of covering it.
ImageClassContain == { "object-contain", "opacity-30", "blur-[2px]" }

\* Variant: the image's classes depend on a counter of render passes.
ImageClassByRender ==
    IF renders % 2 = 0 THEN { "object-cover", "opacity-30", "blur-[2px]" }
    ELSE { "object-cover" }

ImageClass == { "object-cover", "opacity-30", "blur-[2px]" }

GradientClass ==
    { "absolute", "inset-0", "bg-gradient-radial", "from-blue-900/20",
      "via-purple-900/10", "to-black", "mix-blend-overlay" }

TextClass == { "max-w-4xl", "flex", "flex-col", "items-center", "justify-center" }

BackgroundImage ==
    [ id |-> "image", tag |-> "Image", parent |-> "layers", cls |-> ImageClass,
      text |-> "", src |-> "/bg.jpg", alt |-> "background", fill |-> TRUE,
      priority |-> TRUE ]

\* Variant: the component watches the load and drops the image on failure.
HeroLayersOnError ==
    IF load = "failed"
    THEN << El("layers", "div", "hero", LayerClass, ""),
            El("gradient", "div", "layers", GradientClass, "") >>
    ELSE << El("layers", "div", "hero", LayerClass, ""),
            BackgroundImage,
            El("gradient", "div", "layers", GradientClass, "") >>

HeroLayers ==
    << El("layers", "div", "hero", LayerClass, ""),
       BackgroundImage,
       El("gradient", "div", "layers", GradientClass, "") >>

\* Variant: the text block is rendered only while the image has not failed.
HeroTextUnlessFailed ==
    IF load = "failed" THEN <<>>
    ELSE << El("text", "div", "hero", TextClass, ""),
            El("h1", "h1", "text", { "text-5xl", "font-weird", "text-white" },
               "Start creating."),
            El("p", "p", "text", {},
               "Transform Hours of Footage into Minutes of Magic.") >>

HeroText ==
    << El("text", "div", "hero", TextClass, ""),
       El("h1", "h1", "text", { "text-5xl", "font-weird", "text-white" },
          "Start creating."),
       El("p", "p", "text", {},
          "Transform Hours of Footage into Minutes of Magic.") >>

HeroSection ==
    << El("hero", "div", "root", HeroClass, "") >> \o HeroLayers \o HeroText

ScrollSections ==
    << El("sec", "div", "root",
          { "h-screen", "max-w-5xl", "flex", "flex-col", "items-center",
            "justify-start", "px-4", "text-center" }, ""),
       El("sec1", "div", "sec",
          { "flex", "flex-col", "justify-center", "items-center", "mt-32",
            "gap-4" }, ""),
       El("sec1.h1", "h1", "sec1", { "font-serif", "text-7xl" },
          "Create short videos from long ones in a single click"),
       El("sec1.p", "p", "sec1", { "text-muted-foreground", "font-sans" },
          "A tool that can create short videos from long ones before you can say"),
       El("sec1.span", "span", "sec1.p", { "font-weird" }, "Adabra Kadabra"),
       El("sec2", "div", "sec", { "h-screen", "w-full", "max-w-5xl" }, ""),
       El("sec2.h1", "h1", "sec2", { "font-serif", "text-7xl" },
          "Built to work the way humans do"),
       El("sec2.p", "p", "sec2", { "text-muted-foreground", "font-sans" },
          "Autocut's multi-pass system utilizes Whisper model and Diarization for"),
       El("sec2.span", "span", "sec2.p", { "font-weird" }, "seamless") >>

Home ==
    << El("root", "div", "canvas", RootClass, ""),
       El("nav", "Navbar", "root", {}, "") >>
    \o HeroSection \o ScrollSections

----------------------------------------------------------------------------
(* Tree access *)

Ids(t) == { t[i].id : i \in 1..Len(t) }

Index(t, id) == CHOOSE i \in 1..Len(t) : t[i].id = id

Node(t, id) == t[Index(t, id)]

Images(t) == { i \in 1..Len(t) : t[i].tag = "Image" }

RECURSIVE Ancestors(_, _)
Ancestors(t, id) ==
    IF id = "canvas" THEN {}
    ELSE { Node(t, id).parent } \cup Ancestors(t, Node(t, id).parent)

----------------------------------------------------------------------------
(* What the utility classes of an element stand for *)

\* position: <Image fill> is given position:absolute by the image component.
Position(n) ==
    IF "absolute" \in n.cls \/ n.fill THEN "absolute"
    ELSE IF "relative" \in n.cls THEN "relative"
    ELSE "static"

Positioned(n) == Position(n) # "static"

\* z-index: auto unless a z token is present.
HasZ(n) == n.cls \cap { "-z-10", "z-0", "z-10" } # {}

ZValue(n) ==
    IF "-z-10" \in n.cls THEN 0 - 10
    ELSE IF "z-10" \in n.cls THEN 10
    ELSE 0

\* opacity in percent.
Opacity(n) == IF "opacity-30" \in n.cls THEN 30 ELSE 100

\* radius of the blur filter, px.
Blur(n) == IF "blur-[2px]" \in n.cls THEN 2 ELSE 0

BlendMode(n) == IF "mix-blend-overlay" \in n.cls THEN "overlay" ELSE "normal"

HasBackground(n) == n.cls \cap { "bg-foreground", "bg-gradient-radial" } # {}

ClipsOverflow(n) == "overflow-hidden" \in n.cls

ObjectFit(n) ==
    IF "object-cover" \in n.cls THEN "cover"
    ELSE IF "object-contain" \in n.cls THEN "contain"
    ELSE "fill"

IsFlex(n) == "flex" \in n.cls

----------------------------------------------------------------------------
(* Stacking contexts and paint order (CSS 2.1 appendix E, CSS compositing) *)

\* The canvas is the root stacking context.  An element makes one when it is
\* positioned (or a flex item) with a z-index other than auto, when its
\* opacity is below 1, when it carries a filter or a blend mode, or when it
\* is isolated.
CreatesStackingContext(t, id) ==
    \/ id = "canvas"
    \/ LET n == Node(t, id)
           flexItem == n.parent # "canvas" /\ IsFlex(Node(t, n.parent))
       IN  \/ HasZ(n) /\ (Positioned(n) \/ flexItem)
           \/ Opacity(n) < 100
           \/ Blur(n) > 0
           \/ BlendMode(n) # "normal"
           \/ "isolate" \in n.cls

\* The nearest strict ancestor that makes a stacking context.
RECURSIVE StackingContextOf(_, _)
StackingContextOf(t, id) ==
    LET p == Node(t, id).parent
    IN  IF CreatesStackingContext(t, p) THEN p ELSE StackingContextOf(t, p)

\* An element is painted in a layer of its own when it is positioned or makes
\* a stacking context; everything else is painted with the nearest such
\* ancestor, its owner.
OwnLayer(t, id) == Positioned(Node(t, id)) \/ CreatesStackingContext(t, id)

RECURSIVE OwnerOf(_, _)
OwnerOf(t, id) ==
    LET p == Node(t, id).parent
    IN  IF p = "canvas" \/ OwnLayer(t, p) THEN p ELSE OwnerOf(t, p)

InFlow(t, s) == { d \in Ids(t) : ~OwnLayer(t, d) /\ OwnerOf(t, d) = s }

\* The layers a stacking context orders by z-index.  A positioned element
\* with z-index auto orders none: its layers belong to the context around it.
Participants(t, s) ==
    IF CreatesStackingContext(t, s)
    THEN { d \in Ids(t) : OwnLayer(t, d) /\ StackingContextOf(t, d) = s }
    ELSE {}

ZLevel(t, id) == IF HasZ(Node(t, id)) THEN ZValue(Node(t, id)) ELSE 0

\* z-index first, document order second.
RECURSIVE InPaintOrder(_, _)
InPaintOrder(t, S) ==
    IF S = {} THEN <<>>
    ELSE LET m == CHOOSE x \in S : \A y \in S :
                     \/ ZLevel(t, x) < ZLevel(t, y)
                     \/ ZLevel(t, x) = ZLevel(t, y) /\ Index(t, x) <= Index(t, y)
         IN  <<m>> \o InPaintOrder(t, S \ {m})

Item(id, part) == [ id |-> id, part |-> part ]

RECURSIVE Parts(_, _)
Parts(ids, part) ==
    IF ids = <<>> THEN <<>> ELSE <<Item(Head(ids), part)>> \o Parts(Tail(ids), part)

\* Bottom-to-top paint sequence of the layer s: its own background, the
\* layers below zero, the backgrounds and then the contents of what is in
\* flow, the layers at zero and auto, the layers above zero.
RECURSIVE Paint(_, _), PaintEach(_, _)
Paint(t, s) ==
    LET P == Participants(t, s)
        below == { d \in P : ZLevel(t, d) < 0 }
        above == { d \in P : ZLevel(t, d) > 0 }
        flow == InPaintOrder(t, InFlow(t, s))
    IN  <<Item(s, "bg")>>
        \o PaintEach(t, InPaintOrder(t, below))
        \o Parts(flow, "bg")
        \o <<Item(s, "content")>> \o Parts(flow, "content")
        \o PaintEach(t, InPaintOrder(t, P \ (below \cup above)))
        \o PaintEach(t, InPaintOrder(t, above))

PaintEach(t, ids) ==
    IF ids = <<>> THEN <<>> ELSE Paint(t, Head(ids)) \o PaintEach(t, Tail(ids))

PaintOrder(t) == Paint(t, "canvas")

\* Position of an item in a paint sequence, 0 when it is not painted.
PaintIndex(seq, id, part) ==
    LET at == { i \in 1..Len(seq) : seq[i] = Item(id, part) }
    IN  IF at = {} THEN 0 ELSE CHOOSE i \in at : TRUE

\* The isolated group an element is blended in, and what has been painted in
\* that group when the element is: the backdrop of its blend mode.
Marks(t, it) ==
    IF it.id = "canvas" THEN it.part = "bg"
    ELSE LET n == Node(t, it.id)
         IN  IF it.part = "bg" THEN HasBackground(n)
             ELSE n.tag = "Image" \/ n.text # ""

Backdrop(t, id) ==
    LET seq == Paint(t, StackingContextOf(t, id))
        me == CHOOSE i \in 1..Len(seq) : seq[i].id = id
    IN  { seq[i] : i \in { j \in 1..(me - 1) : Marks(t, seq[j]) } }

----------------------------------------------------------------------------
(* Layout: the boxes of the mounted tree in the current viewport *)

Max(a, b) == IF a >= b THEN a ELSE b

Min(a, b) == IF a <= b THEN a ELSE b

Rect(x0, y0, x1, y1) == [ x0 |-> x0, y0 |-> y0, x1 |-> x1, y1 |-> y1 ]

Width(r) == r.x1 - r.x0

Height(r) == r.y1 - r.y0

IsEmpty(r) == r.x0 >= r.x1 \/ r.y0 >= r.y1

Intersect(a, b) ==
    Rect(Max(a.x0, b.x0), Max(a.y0, b.y0), Min(a.x1, b.x1), Min(a.y1, b.y1))

Inflate(r, d) == Rect(r.x0 - d, r.y0 - d, r.x1 + d, r.y1 + d)

Within(a, b) ==
    IsEmpty(a) \/ (a.x0 >= b.x0 /\ a.y0 >= b.y0 /\ a.x1 <= b.x1 /\ a.y1 <= b.y1)

\* px-4: 1rem of padding left and right; boxes are sized border-box, so the
\* padding comes out of the width and is not added to it.
Px4 == 16

PadX(n) == IF "px-4" \in n.cls THEN Px4 ELSE 0

\* max-w-4xl: 56rem.
MaxW4xl == 896

\* The outermost div is a block in the document: as wide as the viewport.
RootWidth(t) == viewport.w

\* w-full takes the width of the flex column; without it an item of a column
\* with items-center shrinks to fit what it holds.
HeroWidth(t) ==
    LET n == Node(t, "hero")
    IN  IF "w-full" \in n.cls THEN RootWidth(t)
        ELSE Min(RootWidth(t), content.w + 2 * PadX(n))

\* h-screen is 100vh; h-full is a percentage of a column of automatic height
\* and so behaves as auto, the height of what the element holds.
HeroBase(t) ==
    IF "h-screen" \in Node(t, "hero").cls THEN viewport.h ELSE content.h

\* The automatic minimum height of a flex item: what it holds, at most its
\* stated height; zero for an item that clips its overflow.
HeroMin(t) ==
    IF ClipsOverflow(Node(t, "hero")) THEN 0 ELSE Min(content.h, HeroBase(t))

\* The first scroll section is 100vh tall and holds a second 100vh section
\* below a margin, so its automatic minimum is its stated height.
SectionHeight(t) == viewport.h

\* Main size of the flex column: h-screen fixes it; otherwise it is what the
\* items need, at least min-h-screen.
RootHeight(t) ==
    LET n == Node(t, "root")
        need == navH + HeroBase(t) + SectionHeight(t)
    IN  IF "h-screen" \in n.cls THEN viewport.h
        ELSE IF "min-h-screen" \in n.cls THEN Max(viewport.h, need)
        ELSE need

\* Items shrink (flex-shrink: 1) when the column is shorter than they need;
\* the navigation bar and the section cannot go below their content, so the
\* hero takes the whole deficit, down to its minimum.
HeroHeight(t) ==
    LET need == navH + HeroBase(t) + SectionHeight(t)
        deficit == Max(0, need - RootHeight(t))
    IN  Max(HeroMin(t), HeroBase(t) - deficit)

\* justify-center: what the column has left over is split above and below.
RootLead(t) ==
    (RootHeight(t) - (navH + HeroHeight(t) + SectionHeight(t))) \div 2

RECURSIVE NearestPositioned(_, _)
NearestPositioned(t, id) ==
    IF id = "canvas" \/ Positioned(Node(t, id)) THEN id
    ELSE NearestPositioned(t, Node(t, id).parent)

\* The box an element is laid out against: its parent, and for an absolute
\* element its nearest positioned ancestor.
ContainingBlock(t, id) ==
    IF Position(Node(t, id)) = "absolute"
    THEN NearestPositioned(t, Node(t, id).parent)
    ELSE Node(t, id).parent

RECURSIVE Box(_, _)
Box(t, id) ==
    IF id = "canvas"
    THEN Rect(0, 0, viewport.w, Max(viewport.h, RootHeight(t)))
    ELSE IF Position(Node(t, id)) = "absolute"
    THEN Box(t, ContainingBlock(t, id))
    ELSE CASE id = "root" -> Rect(0, 0, RootWidth(t), RootHeight(t))
           [] id = "nav" ->
                Rect(0, RootLead(t), RootWidth(t), RootLead(t) + navH)
           [] id = "hero" ->
                LET x == (RootWidth(t) - HeroWidth(t)) \div 2
                    y == RootLead(t) + navH
                IN  Rect(x, y, x + HeroWidth(t), y + HeroHeight(t))
           [] id = "text" ->
                LET h == Box(t, "hero")
                    pad == PadX(Node(t, "hero"))
                    room == Width(h) - 2 * pad
                    cap == IF "max-w-4xl" \in Node(t, id).cls THEN MaxW4xl ELSE room
                    w == Min(content.w, Min(cap, room))
                    x == h.x0 + pad + (room - w) \div 2
                    y == h.y0 + (Height(h) - content.h) \div 2
                IN  Rect(x, y, x + w, y + content.h)
           [] id = "sec" ->
                LET y == RootLead(t) + navH + HeroHeight(t)
                IN  Rect(0, y, RootWidth(t), y + SectionHeight(t))
           [] OTHER -> Box(t, Node(t, id).parent)

\* The elements whose overflow clip reaches id: those on its chain of
\* containing blocks that hide their overflow.
RECURSIVE Clippers(_, _)
Clippers(t, id) ==
    IF id = "canvas" THEN {}
    ELSE LET cb == ContainingBlock(t, id)
         IN  (IF cb # "canvas" /\ ClipsOverflow(Node(t, cb)) THEN { cb } ELSE {})
             \cup Clippers(t, cb)

\* Opacity and filters act on an element together with all it contains.
Carriers(t) ==
    { id \in Ids(t) : Blur(Node(t, id)) > 0 \/ Opacity(Node(t, id)) < 100 }

Affected(t, id) == ({ id } \cup Ancestors(t, id)) \cap Carriers(t) # {}

\* A Gaussian blur of radius r spreads paint about 3r beyond the box.
Bleed(t, id) ==
    LET on == { a \in ({ id } \cup Ancestors(t, id)) \ { "canvas" } :
                    Blur(Node(t, a)) > 0 }
    IN  IF on = {} THEN 0
        ELSE 3 * Blur(Node(t, CHOOSE a \in on :
                 \A b \in on : Blur(Node(t, a)) >= Blur(Node(t, b))))

RECURSIVE ClipTo(_, _, _)
ClipTo(t, r, S) ==
    IF S = {} THEN r
    ELSE LET c == CHOOSE x \in S : TRUE
         IN  ClipTo(t, Intersect(r, Box(t, c)), S \ { c })

\* The area an element can put paint on.
Painted(t, id) == ClipTo(t, Inflate(Box(t, id), Bleed(t, id)), Clippers(t, id))

\* The picture drawn in the <img> box, as exact fractions wn/den by hn/den.
\* cover scales by the larger of the two ratios, contain by the smaller,
\* fill stretches each axis on its own.
Drawn(t) ==
    LET b == Box(t, "image")
        cw == Width(b)
        ch == Height(b)
        fit == ObjectFit(Node(t, "image"))
        byWidth == [ wn |-> cw * image.w, hn |-> cw * image.h, den |-> image.w ]
        byHeight == [ wn |-> ch * image.w, hn |-> ch * image.h, den |-> image.h ]
        wider == cw * image.h >= ch * image.w
    IN  IF fit = "cover" THEN (IF wider THEN byWidth ELSE byHeight)
        ELSE IF fit = "contain" THEN (IF wider THEN byHeight ELSE byWidth)
        ELSE [ wn |-> cw, hn |-> ch, den |-> 1 ]

----------------------------------------------------------------------------
(* Life cycle *)

Init ==
    /\ viewport \in Viewports
    /\ image \in ImageSizes
    /\ navH \in NavHeights
    /\ content \in ContentSizes
    /\ load = "idle"
    /\ renders = 0
    /\ requests = 0
    /\ dom = <<>>
    /\ paint = <<>>
    /\ first = <<>>
    /\ domAt = [ l \in LoadStates |-> <<>> ]

\* One render pass of Home.  The pass is synchronous and reads no state.  A
\* pass that mounts the tree hands each <Image> to the image loader, which
\* requests its src once; a pass over a mounted tree leaves a mounted <img>
\* with an unchanged src alone.  The browser then paints the committed tree.
Render ==
    /\ renders < MaxRenders
    /\ LET out == Home
           mounted == { dom[i].src : i \in Images(dom) }
           fresh == { i \in Images(out) : out[i].src \notin mounted }
           load2 == IF fresh = {} THEN load ELSE "pending"
       IN  /\ dom' = out
           /\ paint' = PaintOrder(out)
           /\ first' = IF renders = 0 THEN out ELSE first
           /\ requests' = requests + Cardinality(fresh)
           /\ load' = load2
           /\ domAt' = [ domAt EXCEPT ![load2] = out ]
    /\ renders' = renders + 1
    /\ UNCHANGED <<viewport, image, navH, content>>

\* The image loader finishes the pending load.
LoadDone ==
    /\ load = "pending"
    /\ load' = "loaded"
    /\ UNCHANGED <<viewport, image, navH, content, renders, requests, dom, paint, first, domAt>>

\* The image loader gives up on the pending load (asset missing, network).
LoadFail ==
    /\ load = "pending"
    /\ load' = "failed"
    /\ UNCHANGED <<viewport, image, navH, content, renders, requests, dom, paint, first, domAt>>

\* The user resizes the window; the browser lays the mounted tree out again.
Resize ==
    /\ \E v \in Viewports : v # viewport /\ viewport' = v
    /\ UNCHANGED <<image, navH, content, load, renders, requests, dom, paint, first, domAt>>

\* The view unmounts; its elements are torn down.
Unmount ==
    /\ dom # <<>>
    /\ dom' = <<>>
    /\ paint' = <<>>
    /\ load' = "idle"
    /\ UNCHANGED <<viewport, image, navH, content, renders, requests, first, domAt>>

Next == Render \/ LoadDone \/ LoadFail \/ Resize \/ Unmount

Spec == Init /\ [][Next]_vars

----------------------------------------------------------------------------
(* Properties *)

Mounted == dom # <<>>

HeroTextIds == { "text", "h1", "p" }

\* C1: in the hero the paint order, bottom to top, is background image, then
\* gradient overlay, then heading and subheading, after any number of render
\* passes and in every load state of the image.
C1_PaintOrder ==
    Mounted =>
        LET img == PaintIndex(paint, "image", "content")
            grad == PaintIndex(paint, "gradient", "bg")
        IN  /\ 0 < img
            /\ img < grad
            /\ grad < PaintIndex(paint, "h1", "content")
            /\ grad < PaintIndex(paint, "p", "content")

C1_Witness ==
    /\ Mounted /\ renders >= 3 /\ load = "failed"
    /\ PaintIndex(paint, "image", "content") < PaintIndex(paint, "gradient", "bg")
    /\ PaintIndex(paint, "gradient", "bg") < PaintIndex(paint, "h1", "content")

\* C2: the hero's fallback background is painted below the image layer in
\* every load state, and is what shows in the hero while the image is absent
\* or has failed.
C2_FallbackBelowImage ==
    Mounted =>
        /\ HasBackground(Node(dom, "hero"))
        /\ 0 < PaintIndex(paint, "hero", "bg")
        /\ PaintIndex(paint, "hero", "bg") < PaintIndex(paint, "image", "content")

\* C3: while the image is still loading or has failed, the heading and the
\* subheading are rendered and painted above the hero's layers, and so are
\* the navigation bar and the two sections that follow.
C3_RestRendered ==
    Mounted /\ load \in { "pending", "failed" } =>
        /\ { "nav", "hero", "text", "h1", "p", "sec", "sec1", "sec2" } \subseteq Ids(dom)
        /\ \A id \in { "h1", "p" } :
              /\ Node(dom, id).text # ""
              /\ PaintIndex(paint, id, "content") > PaintIndex(paint, "hero", "bg")
              /\ PaintIndex(paint, id, "content") > PaintIndex(paint, "gradient", "bg")
        /\ \A id \in { "nav", "sec1.h1", "sec1.p", "sec2.h1", "sec2.p" } :
              PaintIndex(paint, id, "content") > 0

C3_Witness ==
    /\ Mounted /\ load = "failed" /\ renders >= 2
    /\ domAt["failed"] # <<>>
    /\ { "nav", "h1", "p", "sec1", "sec2" } \subseteq Ids(dom)

\* C4: for every viewport the hero's box is as high and as wide as the
\* viewport, whatever it holds, whatever its padding and whatever the height
\* of the navigation bar above it in the same column.
C4_HeroFillsViewport ==
    Mounted =>
        /\ Height(Box(dom, "hero")) = viewport.h
        /\ Width(Box(dom, "hero")) = viewport.w

C4_Witness ==
    /\ Mounted /\ navH > 0 /\ content.h > viewport.h
    /\ PadX(Node(dom, "hero")) > 0
    /\ Height(Box(dom, "hero")) = viewport.h

\* C5: what the hero's layers paint (the image with its blur bleed, the
\* gradient, the text) lies inside the hero's box, for every viewport.
C5_ClippedToHero ==
    Mounted =>
        \A id \in { "layers", "image", "gradient" } \cup HeroTextIds :
            Within(Painted(dom, id), Box(dom, "hero"))

C5_Witness ==
    /\ Mounted
    /\ Bleed(dom, "image") > 0
    /\ ~Within(Inflate(Box(dom, "image"), Bleed(dom, "image")), Box(dom, "hero"))
    /\ ~Within(Box(dom, "text"), Box(dom, "hero"))
    /\ Within(Painted(dom, "image"), Box(dom, "hero"))

\* C6: blur and reduced opacity are carried by the image element alone;
\* neither the gradient nor the text is that element or inside it.
C6_EffectsOnImageOnly ==
    Mounted =>
        /\ Carriers(dom) = { "image" }
        /\ Blur(Node(dom, "image")) > 0
        /\ Opacity(Node(dom, "image")) < 100
        /\ \A id \in { "gradient" } \cup HeroTextIds : ~Affected(dom, id)

C6_Witness ==
    /\ Mounted /\ load = "loaded"
    /\ Affected(dom, "image")
    /\ ~Affected(dom, "gradient") /\ ~Affected(dom, "h1")

\* C7: the gradient's blend mode is overlay, it is blended in the same
\* group as the image, and its backdrop there is the image alone: neither
\* the page background nor the hero's own background is part of it.
C7_OverlayOnImage ==
    Mounted =>
        /\ BlendMode(Node(dom, "gradient")) = "overlay"
        /\ StackingContextOf(dom, "gradient") = StackingContextOf(dom, "image")
        /\ StackingContextOf(dom, "gradient") # "canvas"
        /\ Backdrop(dom, "gradient") = { Item("image", "content") }
        /\ Item("canvas", "bg") \notin Backdrop(dom, "gradient")
        /\ Item("hero", "bg") \notin Backdrop(dom, "gradient")

C7_Witness ==
    /\ Mounted /\ load = "loaded"
    /\ BlendMode(Node(dom, "gradient")) = "overlay"
    /\ Item("image", "content") \in Backdrop(dom, "gradient")

\* C8: a render pass over a mounted tree produces the tree that is already
\* there and changes nothing a render pass or the layout reads; every tree
\* ever produced is the tree of the first pass.
C8_Idempotent ==
    /\ [](Mounted => dom = first)
    /\ [][ Mounted /\ renders' = renders + 1 =>
              /\ dom' = dom
              /\ load' = load
              /\ requests' = requests
              /\ UNCHANGED <<viewport, image, navH, content>> ]_vars

C8_Witness == Mounted /\ renders >= 3 /\ dom = first /\ requests = 1

\* C9: the asset is requested at most once per render pass whatever the
\* outcome of the load, the end of a load (done or failed) starts no render
\* pass and no new request, and the passes made in the different load states
\* (pending among them) all produce the same tree.
C9_LoadNotObserved ==
    /\ [](requests <= renders)
    /\ [](\A a, b \in LoadStates :
            domAt[a] # <<>> /\ domAt[b] # <<>> => domAt[a] = domAt[b])
    /\ [][ load = "pending" /\ load' \in { "loaded", "failed" } =>
              /\ renders' = renders
              /\ requests' = requests
              /\ dom' = dom ]_vars

C9_Witness ==
    /\ domAt["pending"] # <<>> /\ domAt["loaded"] # <<>> /\ domAt["failed"] # <<>>
    /\ load = "failed"
    /\ requests = 2

\* C10: the picture keeps its aspect ratio and is scaled to cover the hero:
\* the <img> box is the hero's box and the drawn picture is at least as wide
\* and at least as high as it, for every viewport and every picture.
C10_ImageCovers ==
    Mounted =>
        LET d == Drawn(dom)
            h == Box(dom, "hero")
        IN  /\ Box(dom, "image") = h
            /\ d.wn >= Width(h) * d.den
            /\ d.hn >= Height(h) * d.den
            /\ d.wn * image.h = d.hn * image.w

C10_Witness ==
    /\ Mounted /\ load = "loaded"
    /\ viewport.w * image.h < viewport.h * image.w
    /\ Drawn(dom).wn > Width(Box(dom, "hero")) * Drawn(dom).den

====
